---- MODULE Spec2Model ----
(***************************************************************************)
(* First-person camera and stand collision of the gallery walkthrough      *)
(* (src/Main.cpp: the camera globals, KeyCallback and MouseCallback).      *)
(*                                                                         *)
(* Numbers.  The program computes in float.  The model computes in fixed   *)
(* point and does not model float rounding:                                *)
(*   lengths          1/1000 of a world unit   (0.25 is 250, 7.5 is 7500)  *)
(*   angles           1/10 of a degree         (89 degrees is 890)         *)
(*   vector entries   1/10000                  (1.0 is 10000)              *)
(*   mouse positions  whole screen pixels, which float holds exactly       *)
(* One pixel of mouse travel times the sensitivity 0.1 is one angle unit.  *)
(***************************************************************************)
EXTENDS Integers, Sequences, FiniteSets, TLC

VARIABLES cameraPosition, cameraFront, pitch, yaw, lastX, lastY, firstMouse,
          visibleCursor, cursorMode, previousX, previousZ, event, nEvents,
          pc, shouldClose, view, before

vars == <<cameraPosition, cameraFront, pitch, yaw, lastX, lastY, firstMouse,
          visibleCursor, cursorMode, previousX, previousZ, event, nEvents,
          pc, shouldClose, view, before>>

(***************************************************************************)
(* Bounds of the exploration.                                              *)
(***************************************************************************)
\* number of input events delivered in one run
MaxEvents == 3
\* number of mouse events delivered in one run of mouse events alone
MaxLooks == 4
MaxSteps == 1

(***************************************************************************)
(* Program constants.                                                      *)
(***************************************************************************)
\* 1.0 as a vector entry, and 1.0 as a length
One == 10000
Unit == 1000
\* the camera's step per key event, 0.25f
cameraSpeed == 250
\* half of the room's side, 23.0f
RoomBound == 23000
\* the eye height, -15.0f
EyeHeight == -15000
\* the faces of the stands, 7.5f and 12.5f
StandNear == 7500
StandFar == 12500
\* the per-event displacement above which a stand snaps, 0.12f
SnapThreshold == 120
\* the pitch limit, 89.0f
PitchLimit == 890

cameraUp == [x |-> 0, y |-> One, z |-> 0]

(***************************************************************************)
(* Arithmetic helpers.                                                     *)
(***************************************************************************)
Abs(a) == IF a < 0 THEN -a ELSE a

\* a / b to the nearest integer, b > 0, symmetric about 0
RDiv(a, b) == IF a >= 0 THEN (2 * a + b) \div (2 * b)
                        ELSE -((2 * (-a) + b) \div (2 * b))

RECURSIVE IsqrtIter(_, _, _)
IsqrtIter(n, lo, hi) ==
    IF lo >= hi THEN lo
    ELSE LET mid == (lo + hi + 1) \div 2
         IN  IF mid * mid <= n THEN IsqrtIter(n, mid, hi)
                               ELSE IsqrtIter(n, lo, mid - 1)

\* the integer part of the square root of n, 0 <= n < 2^30
Isqrt(n) == IsqrtIter(n, 0, 32767)

\* r or r + 1, whichever is nearer to the square root of n, r its integer part
Nearer(n, r) == IF n - r * r > r THEN r + 1 ELSE r

\* the square root of n to the nearest integer
Sqrt(n) == Nearer(n, Isqrt(n))

\* 10000 * sin(d degrees) for d = 0 .. 90, at index d + 1
SinTable == <<
    0, 175, 349, 523, 698, 872, 1045, 1219, 1392, 1564,
    1736, 1908, 2079, 2250, 2419, 2588, 2756, 2924, 3090, 3256,
    3420, 3584, 3746, 3907, 4067, 4226, 4384, 4540, 4695, 4848,
    5000, 5150, 5299, 5446, 5592, 5736, 5878, 6018, 6157, 6293,
    6428, 6561, 6691, 6820, 6947, 7071, 7193, 7314, 7431, 7547,
    7660, 7771, 7880, 7986, 8090, 8192, 8290, 8387, 8480, 8572,
    8660, 8746, 8829, 8910, 8988, 9063, 9135, 9205, 9272, 9336,
    9397, 9455, 9511, 9563, 9613, 9659, 9703, 9744, 9781, 9816,
    9848, 9877, 9903, 9925, 9945, 9962, 9976, 9986, 9994, 9998,
    10000 >>

\* sin of an angle given in tenths of a degree (whole degrees only)
Sin(a) ==
    LET d == (a \div 10) % 360
    IN  IF d <= 90 THEN SinTable[d + 1]
        ELSE IF d <= 180 THEN SinTable[180 - d + 1]
        ELSE IF d <= 270 THEN -SinTable[d - 180 + 1]
        ELSE -SinTable[360 - d + 1]

Cos(a) == Sin(a + 900)

Dot(u, v) == u.x * v.x + u.y * v.y + u.z * v.z

Cross(u, v) == [x |-> RDiv(u.y * v.z - u.z * v.y, One),
                y |-> RDiv(u.z * v.x - u.x * v.z, One),
                z |-> RDiv(u.x * v.y - u.y * v.x, One)]

\* v divided by a length
Over(v, len) == [x |-> RDiv(v.x * One, len),
                 y |-> RDiv(v.y * One, len),
                 z |-> RDiv(v.z * One, len)]

Normalize(v) == Over(v, Sqrt(Dot(v, v)))

\* a length s times a vector, as a displacement in length units
Scale(s, v) == [x |-> RDiv(s * v.x, One),
                y |-> RDiv(s * v.y, One),
                z |-> RDiv(s * v.z, One)]

Plus(p, d) == [x |-> p.x + d.x, y |-> p.y + d.y, z |-> p.z + d.z]
Minus(p, d) == [x |-> p.x - d.x, y |-> p.y - d.y, z |-> p.z - d.z]

\* variant: the pitch is left out of the horizontal entries
Direction_FlatYaw(yw, pt) ==
    Normalize([x |-> Cos(yw), y |-> Sin(pt), z |-> Sin(yw)])

\* the look direction of a yaw and a pitch (lines 1643-1647)
Direction(yw, pt) ==
    Normalize([x |-> RDiv(Cos(yw) * Cos(pt), One),
               y |-> Sin(pt),
               z |-> RDiv(Sin(yw) * Cos(pt), One)])

(***************************************************************************)
(* Inputs.                                                                 *)
(***************************************************************************)
\* GLFW key identifiers: the eight movement keys, Escape, and one other key
LeftKeys == {"LEFT", "A"}
RightKeys == {"RIGHT", "D"}
UpKeys == {"UP", "W"}
DownKeys == {"DOWN", "S"}
MoveKeys == LeftKeys \cup RightKeys \cup UpKeys \cup DownKeys
Keys == MoveKeys \cup {"ESCAPE", "SPACE"}

\* GLFW key actions
Actions == {"PRESS", "RELEASE", "REPEAT"}

\* cursor positions reported by the window, in pixels
MouseXs == {0, 450, 900}
MouseYs == {0, 600, 1500}

\* cursor x-positions of the runs of mouse events alone: half a turn apart
LookXs == MouseXs \cup {1800}
LookYs == MouseYs \cup {2400}

\* variant: the sideways step is as long as the forward step
Move_EvenSteps(key, pos, front) ==
    IF key \in LeftKeys
    THEN Minus(pos, Scale(cameraSpeed, Normalize(Cross(front, cameraUp))))
    ELSE IF key \in RightKeys
    THEN Plus(pos, Scale(cameraSpeed, Normalize(Cross(front, cameraUp))))
    ELSE IF key \in UpKeys
    THEN Plus(pos, Scale(cameraSpeed, front))
    ELSE IF key \in DownKeys
    THEN Minus(pos, Scale(cameraSpeed, front))
    ELSE pos

\* variant: the backward step is half the forward step
Move_ShortBack(key, pos, front) ==
    IF key \in LeftKeys
    THEN Minus(pos, Scale(cameraSpeed \div 2, Normalize(Cross(front, cameraUp))))
    ELSE IF key \in RightKeys
    THEN Plus(pos, Scale(cameraSpeed \div 2, Normalize(Cross(front, cameraUp))))
    ELSE IF key \in UpKeys
    THEN Plus(pos, Scale(cameraSpeed, front))
    ELSE IF key \in DownKeys
    THEN Minus(pos, Scale(cameraSpeed \div 2, front))
    ELSE pos

(***************************************************************************)
(* KeyCallback, step by step.                                              *)
(***************************************************************************)
\* the displacement of the key (lines 1527-1538): at most one branch runs
Move(key, pos, front) ==
    IF key \in LeftKeys
    THEN Minus(pos, Scale(cameraSpeed \div 2, Normalize(Cross(front, cameraUp))))
    ELSE IF key \in RightKeys
    THEN Plus(pos, Scale(cameraSpeed \div 2, Normalize(Cross(front, cameraUp))))
    ELSE IF key \in UpKeys
    THEN Plus(pos, Scale(cameraSpeed, front))
    ELSE IF key \in DownKeys
    THEN Minus(pos, Scale(cameraSpeed, front))
    ELSE pos

\* variant: a key moves the camera when pressed or held, not when released
Displace_NotOnRelease(key, action, pos, front) ==
    IF action = "RELEASE" THEN pos ELSE Move(key, pos, front)

\* the displacement of a key event: the movement branches test the key and
\* not the action
Displace(key, action, pos, front) == Move(key, pos, front)

\* variant: the coordinate is left where the displacement put it
ClampAxis_NoClamp(c) == c

\* variant: the sign of the coordinate is dropped
ClampAxis_Positive(c) == IF Abs(c) > RoomBound THEN RoomBound ELSE c

\* one coordinate held within the room: x / abs(x) * 23.0f when abs(x) > 23.0f
ClampAxis(c) == IF Abs(c) > RoomBound THEN (c \div Abs(c)) * RoomBound ELSE c

\* variant: y is left where the displacement put it
ClampY_Skip(y) == y

\* the eye height forced on y
ClampY(y) == IF y # EyeHeight THEN EyeHeight ELSE y

\* variant: a position past a wall is drawn back towards the centre of the
\* room, both coordinates in the same proportion
Clamp_Proportional(p) ==
    IF Abs(p.x) > RoomBound
    THEN [x |-> ClampAxis(p.x), y |-> ClampY(p.y),
          z |-> RDiv(p.z * RoomBound, Abs(p.x))]
    ELSE IF Abs(p.z) > RoomBound
    THEN [x |-> RDiv(p.x * RoomBound, Abs(p.z)), y |-> ClampY(p.y),
          z |-> ClampAxis(p.z)]
    ELSE [x |-> ClampAxis(p.x), y |-> ClampY(p.y), z |-> ClampAxis(p.z)]

\* restricting the camera to the room (lines 1541-1543)
Clamp(p) == [x |-> ClampAxis(p.x), y |-> ClampY(p.y), z |-> ClampAxis(p.z)]

\* the test of one stand's box, faces included
InBox(p, xA, xB, zA, zB) ==
    /\ (IF xA < xB THEN p.x >= xA /\ p.x <= xB ELSE p.x <= xA /\ p.x >= xB)
    /\ (IF zA < zB THEN p.z >= zA /\ p.z <= zB ELSE p.z <= zA /\ p.z >= zB)

\* variant: the x-faces and the z-faces are corrected by two separate chains
StandBlock_BothAxes(p, xDiff, zDiff, xA, xB, zA, zB) ==
    IF InBox(p, xA, xB, zA, zB)
    THEN [x |-> IF Abs(p.x - xA) < Abs(p.x - xB) /\ xDiff > SnapThreshold
                THEN xA
                ELSE IF Abs(p.x - xA) > Abs(p.x - xB) /\ xDiff > SnapThreshold
                THEN xB
                ELSE p.x,
          y |-> p.y,
          z |-> IF Abs(p.z - zA) < Abs(p.z - zB) /\ zDiff > SnapThreshold
                THEN zA
                ELSE IF Abs(p.z - zA) > Abs(p.z - zB) /\ zDiff > SnapThreshold
                THEN zB
                ELSE p.z]
    ELSE p

\* variant: the z-faces are not handled
StandBlock_XOnly(p, xDiff, zDiff, xA, xB, zA, zB) ==
    IF InBox(p, xA, xB, zA, zB)
    THEN IF Abs(p.x - xA) < Abs(p.x - xB) /\ xDiff > SnapThreshold
         THEN [p EXCEPT !.x = xA]
         ELSE IF Abs(p.x - xA) > Abs(p.x - xB) /\ xDiff > SnapThreshold
         THEN [p EXCEPT !.x = xB]
         ELSE p
    ELSE p

\* variant: a coordinate that moved at all is put on a face
StandBlock_AnyDelta(p, xDiff, zDiff, xA, xB, zA, zB) ==
    IF InBox(p, xA, xB, zA, zB)
    THEN IF Abs(p.x - xA) < Abs(p.x - xB) /\ xDiff > 0
         THEN [p EXCEPT !.x = xA]
         ELSE IF Abs(p.x - xA) > Abs(p.x - xB) /\ xDiff > 0
         THEN [p EXCEPT !.x = xB]
         ELSE IF Abs(p.z - zA) < Abs(p.z - zB) /\ zDiff > 0
         THEN [p EXCEPT !.z = zA]
         ELSE IF Abs(p.z - zA) > Abs(p.z - zB) /\ zDiff > 0
         THEN [p EXCEPT !.z = zB]
         ELSE p
    ELSE p

\* variant: a coordinate midway between two faces is put on the first
StandBlock_TieToFirst(p, xDiff, zDiff, xA, xB, zA, zB) ==
    IF InBox(p, xA, xB, zA, zB)
    THEN IF Abs(p.x - xA) <= Abs(p.x - xB) /\ xDiff > SnapThreshold
         THEN [p EXCEPT !.x = xA]
         ELSE IF Abs(p.x - xA) > Abs(p.x - xB) /\ xDiff > SnapThreshold
         THEN [p EXCEPT !.x = xB]
         ELSE IF Abs(p.z - zA) <= Abs(p.z - zB) /\ zDiff > SnapThreshold
         THEN [p EXCEPT !.z = zA]
         ELSE IF Abs(p.z - zA) > Abs(p.z - zB) /\ zDiff > SnapThreshold
         THEN [p EXCEPT !.z = zB]
         ELSE p
    ELSE p

\* variant: the camera is put just off the face, outside the box
StandBlock_OffFace(p, xDiff, zDiff, xA, xB, zA, zB) ==
    IF InBox(p, xA, xB, zA, zB)
    THEN IF Abs(p.x - xA) < Abs(p.x - xB) /\ xDiff > SnapThreshold
         THEN [p EXCEPT !.x = xA + (xA - xB) \div Abs(xA - xB)]
         ELSE IF Abs(p.x - xA) > Abs(p.x - xB) /\ xDiff > SnapThreshold
         THEN [p EXCEPT !.x = xB + (xB - xA) \div Abs(xB - xA)]
         ELSE IF Abs(p.z - zA) < Abs(p.z - zB) /\ zDiff > SnapThreshold
         THEN [p EXCEPT !.z = zA + (zA - zB) \div Abs(zA - zB)]
         ELSE IF Abs(p.z - zA) > Abs(p.z - zB) /\ zDiff > SnapThreshold
         THEN [p EXCEPT !.z = zB + (zB - zA) \div Abs(zB - zA)]
         ELSE p
    ELSE p

\* variant: the z-faces are tried before the x-faces
StandBlock_ZFirst(p, xDiff, zDiff, xA, xB, zA, zB) ==
    IF InBox(p, xA, xB, zA, zB)
    THEN IF Abs(p.z - zA) < Abs(p.z - zB) /\ zDiff > SnapThreshold
         THEN [p EXCEPT !.z = zA]
         ELSE IF Abs(p.z - zA) > Abs(p.z - zB) /\ zDiff > SnapThreshold
         THEN [p EXCEPT !.z = zB]
         ELSE IF Abs(p.x - xA) < Abs(p.x - xB) /\ xDiff > SnapThreshold
         THEN [p EXCEPT !.x = xA]
         ELSE IF Abs(p.x - xA) > Abs(p.x - xB) /\ xDiff > SnapThreshold
         THEN [p EXCEPT !.x = xB]
         ELSE p
    ELSE p

\* the if / else-if chain of one stand: xA and zA are the faces named first
StandBlock(p, xDiff, zDiff, xA, xB, zA, zB) ==
    IF InBox(p, xA, xB, zA, zB)
    THEN IF Abs(p.x - xA) < Abs(p.x - xB) /\ xDiff > SnapThreshold
         THEN [p EXCEPT !.x = xA]
         ELSE IF Abs(p.x - xA) > Abs(p.x - xB) /\ xDiff > SnapThreshold
         THEN [p EXCEPT !.x = xB]
         ELSE IF Abs(p.z - zA) < Abs(p.z - zB) /\ zDiff > SnapThreshold
         THEN [p EXCEPT !.z = zA]
         ELSE IF Abs(p.z - zA) > Abs(p.z - zB) /\ zDiff > SnapThreshold
         THEN [p EXCEPT !.z = zB]
         ELSE p
    ELSE p

Stand1(p, xDiff, zDiff) ==
    StandBlock(p, xDiff, zDiff, -StandNear, -StandFar, StandNear, StandFar)

Stand2(p, xDiff, zDiff) ==
    StandBlock(p, xDiff, zDiff, StandNear, StandFar, StandNear, StandFar)

\* variant: the third stand tries its z-faces first
Stand3_ZFirst(p, xDiff, zDiff) ==
    StandBlock_ZFirst(p, xDiff, zDiff, -StandNear, -StandFar, -StandNear, -StandFar)

Stand3(p, xDiff, zDiff) ==
    StandBlock(p, xDiff, zDiff, -StandNear, -StandFar, -StandNear, -StandFar)

Stand4(p, xDiff, zDiff) ==
    StandBlock(p, xDiff, zDiff, StandNear, StandFar, -StandNear, -StandFar)

\* the four blocks in their order; the deltas are those computed before them
Collide(p, xDiff, zDiff) ==
    Stand4(Stand3(Stand2(Stand1(p, xDiff, zDiff), xDiff, zDiff), xDiff, zDiff),
           xDiff, zDiff)

\* variant: the press of any key flips the flag
ToggleCursor_AnyKey(key, action, visible) ==
    IF action = "PRESS" THEN ~visible ELSE visible

\* variant: the branch that hides the cursor again is missing
ToggleCursor_ShowOnly(key, action, visible) ==
    IF action = "PRESS" /\ key = "ESCAPE" THEN TRUE ELSE visible

\* the Escape branch (lines 1600-1610)
ToggleCursor(key, action, visible) ==
    IF action = "PRESS" /\ key = "ESCAPE" THEN ~visible ELSE visible

\* variant: the two cursor modes are exchanged
CursorModeOf_Exchanged(key, action, visible, mode) ==
    IF action = "PRESS" /\ key = "ESCAPE"
    THEN (IF ~visible THEN "DISABLED" ELSE "NORMAL")
    ELSE mode

\* the cursor mode the Escape branch sets on the window (lines 1602-1609)
CursorModeOf(key, action, visible, mode) ==
    IF action = "PRESS" /\ key = "ESCAPE"
    THEN (IF ~visible THEN "NORMAL" ELSE "DISABLED")
    ELSE mode

NoEvent == [kind |-> "none", key |-> "", action |-> "",
            from |-> [x |-> 0, y |-> 0, z |-> 0],
            raw |-> [x |-> 0, y |-> 0, z |-> 0],
            mid |-> [x |-> 0, y |-> 0, z |-> 0],
            xDiff |-> 0, zDiff |-> 0,
            xpos |-> 0, ypos |-> 0, xoffset |-> 0, yoffset |-> 0,
            first |-> FALSE]

\* variant: the previous position is taken before the stands are handled
Previous_BeforeStands(mid, fin) == mid

\* the position kept for the next event's deltas (lines 1597-1598), of mid,
\* the position after the room clamp, and fin, the position after the stands
Previous(mid, fin) == fin

\* the whole handler; raw, mid, xDiff and zDiff are its intermediate values:
\* the position after the displacement, the position after the room clamp,
\* and the two deltas of line 1546 and 1547
KeyCallback(key, action) ==
    \E raw \in {Displace(key, action, cameraPosition, cameraFront)} :
    \E mid \in {Clamp(raw)} :
    \E xDiff \in {Abs(mid.x - previousX)}, zDiff \in {Abs(mid.z - previousZ)} :
        /\ cameraPosition' = Collide(mid, xDiff, zDiff)
        /\ previousX' = Previous(mid, cameraPosition').x
        /\ previousZ' = Previous(mid, cameraPosition').z
        /\ visibleCursor' = ToggleCursor(key, action, visibleCursor)
        /\ cursorMode' = CursorModeOf(key, action, visibleCursor, cursorMode)
        /\ event' = [NoEvent EXCEPT !.kind = "key", !.key = key,
                                    !.action = action, !.from = cameraPosition,
                                    !.raw = raw, !.mid = mid,
                                    !.xDiff = xDiff, !.zDiff = zDiff]
        /\ UNCHANGED <<cameraFront, pitch, yaw, lastX, lastY, firstMouse>>
        /\ UNCHANGED <<pc, shouldClose, view>>

(***************************************************************************)
(* MouseCallback.                                                          *)
(***************************************************************************)
\* variant: the first event is measured from the stored position too
Baseline_Stored(first, last, pos) == last

\* the baseline the offset is taken from (lines 1621-1626)
Baseline(first, last, pos) == IF first THEN pos ELSE last

\* variant: only the upper limit is applied
ClampPitch_UpperOnly(pt) == IF pt > PitchLimit THEN PitchLimit ELSE pt

\* variant: the yaw is held within the limit of the pitch
TurnYaw_Limited(yw, xoffset) ==
    IF yw + xoffset > PitchLimit THEN PitchLimit
    ELSE IF yw + xoffset < -PitchLimit THEN -PitchLimit
    ELSE yw + xoffset

\* variant: the yaw is wrapped into a turn around 0
TurnYaw_Wrapped(yw, xoffset) ==
    IF yw + xoffset >= 1800 THEN yw + xoffset - 3600
    ELSE IF yw + xoffset < -1800 THEN yw + xoffset + 3600
    ELSE yw + xoffset

\* the yaw after an offset (line 1637): neither limited nor wrapped
TurnYaw(yw, xoffset) == yw + xoffset

\* variant: the pitch is stored as accumulated
ClampPitch_NotStored(pt) == pt

\* the pitch held within its limit (lines 1640-1641)
ClampPitch(pt) == IF pt > PitchLimit THEN PitchLimit
                  ELSE IF pt < -PitchLimit THEN -PitchLimit
                  ELSE pt

\* variant: the camera does not turn while the cursor is shown
MouseCallback_WhenHidden(xpos, ypos) ==
    LET xoffset == IF visibleCursor THEN 0
                   ELSE xpos - Baseline(firstMouse, lastX, xpos)
        yoffset == IF visibleCursor THEN 0
                   ELSE Baseline(firstMouse, lastY, ypos) - ypos
        newYaw == TurnYaw(yaw, xoffset)
        newPitch == ClampPitch(pitch + yoffset)
    IN  /\ lastX' = xpos
        /\ lastY' = ypos
        /\ firstMouse' = FALSE
        /\ yaw' = newYaw
        /\ pitch' = newPitch
        /\ cameraFront' = Direction(newYaw, newPitch)
        /\ event' = [NoEvent EXCEPT !.kind = "mouse", !.xpos = xpos,
                                    !.ypos = ypos, !.xoffset = xoffset,
                                    !.yoffset = yoffset, !.first = firstMouse]
        /\ UNCHANGED <<cameraPosition, previousX, previousZ,
                       visibleCursor, cursorMode>>
        /\ UNCHANGED <<pc, shouldClose, view>>

MouseCallback(xpos, ypos) ==
    LET xoffset == xpos - Baseline(firstMouse, lastX, xpos)
        yoffset == Baseline(firstMouse, lastY, ypos) - ypos
        newYaw == TurnYaw(yaw, xoffset)
        newPitch == ClampPitch(pitch + yoffset)
    IN  /\ lastX' = xpos
        /\ lastY' = ypos
        /\ firstMouse' = FALSE
        /\ yaw' = newYaw
        /\ pitch' = newPitch
        /\ cameraFront' = Direction(newYaw, newPitch)
        /\ event' = [NoEvent EXCEPT !.kind = "mouse", !.xpos = xpos,
                                    !.ypos = ypos, !.xoffset = xoffset,
                                    !.yoffset = yoffset, !.first = firstMouse]
        /\ UNCHANGED <<cameraPosition, previousX, previousZ,
                       visibleCursor, cursorMode>>
        /\ UNCHANGED <<pc, shouldClose, view>>

(***************************************************************************)
(* The state after construction, and states the keys alone lead to.        *)
(* With the look direction still (1, 0, 0), UP / DOWN move x by 0.25 and   *)
(* RIGHT / LEFT move z by 0.125, so from (-23, -15, 0) the camera walks to *)
(* every point below, around the stands, before any mouse event arrives.   *)
(***************************************************************************)
StartPosition == [x |-> -23000, y |-> EyeHeight, z |-> 0]

Starts == { StartPosition,
            [x |-> -12750, y |-> EyeHeight, z |-> 10000],
            [x |-> -10250, y |-> EyeHeight, z |-> 7375],
            [x |-> -12500, y |-> EyeHeight, z |-> 7375],
            [x |-> -12500, y |-> EyeHeight, z |-> 10000],
            [x |-> 22750, y |-> EyeHeight, z |-> 22875],
            [x |-> 7250, y |-> EyeHeight, z |-> -10000],
            [x |-> 10000, y |-> EyeHeight, z |-> 12625],
            [x |-> -10000, y |-> EyeHeight, z |-> -12625] }

\* the view transform of a frame (line 1110): eye, centre and up of lookAt
LookAt(pos, front, up) ==
    [eye |-> pos, center |-> Plus(pos, Scale(Unit, front)), up |-> up]

\* no frame drawn yet
NoView == [eye |-> [x |-> 0, y |-> 0, z |-> 0],
           center |-> [x |-> 0, y |-> 0, z |-> 0],
           up |-> [x |-> 0, y |-> 0, z |-> 0]]

\* nothing remembered of earlier events
NoBefore == [event |-> NoEvent,
             front |-> [x |-> 0, y |-> 0, z |-> 0],
             front0 |-> [x |-> 0, y |-> 0, z |-> 0],
             firstX |-> 0]

\* the globals as initialised, the camera at one of the positions above
Globals ==
    /\ cameraPosition \in Starts
    /\ cameraFront = [x |-> One, y |-> 0, z |-> 0]
    /\ pitch = 0
    /\ yaw = 0
    /\ lastX = 0
    /\ lastY = 0
    /\ firstMouse = TRUE
    /\ visibleCursor = FALSE
    /\ cursorMode = "DISABLED"
    /\ previousX = cameraPosition.x
    /\ previousZ = cameraPosition.z
    /\ event = NoEvent
    /\ nEvents = 0
    /\ before = NoBefore

\* inside glfwPollEvents, the frame of this iteration drawn, no close asked
Init ==
    /\ Globals
    /\ pc = "poll"
    /\ shouldClose = FALSE
    /\ view = LookAt(cameraPosition, cameraFront, cameraUp)

\* variant: the callbacks are called at the head of the iteration
Polling_AtHead == pc = "draw"

\* glfwPollEvents is running (line 1393); the callbacks are called from it
Polling == pc = "poll"

KeyEvent ==
    /\ Polling
    /\ nEvents < MaxEvents
    /\ nEvents' = nEvents + 1
    /\ \E key \in Keys, action \in Actions : KeyCallback(key, action)
    /\ UNCHANGED before

MouseEvent ==
    /\ Polling
    /\ nEvents < MaxEvents
    /\ nEvents' = nEvents + 1
    /\ \E xpos \in MouseXs, ypos \in MouseYs : MouseCallback(xpos, ypos)
    /\ UNCHANGED before

\* the events of one call of glfwPollEvents
Next == KeyEvent \/ MouseEvent

Spec == Init /\ [][Next]_vars

(***************************************************************************)
(* The render loop of main (lines 1037-1394).                              *)
(***************************************************************************)
Camera == <<cameraPosition, cameraFront, pitch, yaw, lastX, lastY, firstMouse,
            visibleCursor, cursorMode, previousX, previousZ, event, nEvents>>

\* variant: the loop runs while the close flag is set
ShouldExit_Inverted(close) == ~close

\* the loop condition, !glfwWindowShouldClose(window), fails
ShouldExit(close) == close

\* the loop condition is tested (line 1037)
LoopTest ==
    /\ pc = "test"
    /\ pc' = IF ShouldExit(shouldClose) THEN "done" ELSE "draw"
    /\ UNCHANGED <<Camera, shouldClose, view, before>>

\* the frame is drawn with the view of the camera as it is (lines 1039-1390)
Draw ==
    /\ pc = "draw"
    /\ view' = LookAt(cameraPosition, cameraFront, cameraUp)
    /\ pc' = "poll"
    /\ UNCHANGED <<Camera, shouldClose, before>>

\* the windowing layer records that the user asked to close the window
CloseRequest ==
    /\ pc = "poll"
    /\ ~shouldClose
    /\ shouldClose' = TRUE
    /\ UNCHANGED <<Camera, pc, view, before>>

\* glfwPollEvents returns, the iteration ends
PollReturn ==
    /\ pc = "poll"
    /\ pc' = "test"
    /\ UNCHANGED <<Camera, shouldClose, view, before>>

\* the program at the first test of the loop condition
InitLoop ==
    /\ Globals
    /\ cameraPosition = StartPosition
    /\ pc = "test"
    /\ shouldClose = FALSE
    /\ view = NoView

NextLoop == LoopTest \/ Draw \/ KeyEvent \/ MouseEvent \/ CloseRequest \/ PollReturn

SpecLoop == InitLoop /\ [][NextLoop]_vars

(***************************************************************************)
(* Runs of mouse events alone, from the initial state.  `before` keeps the *)
(* event handled before the last one, the front vector it left and the     *)
(* front vector it found.                                                  *)
(***************************************************************************)
LookEvent ==
    /\ Polling
    /\ nEvents < MaxLooks
    /\ nEvents' = nEvents + 1
    /\ \E xpos \in LookXs, ypos \in LookYs : MouseCallback(xpos, ypos)
    /\ before' = [event |-> event, front |-> cameraFront,
                  front0 |-> before.front,
                  firstX |-> IF firstMouse THEN lastX' ELSE before.firstX]

InitLook ==
    /\ Init
    /\ cameraPosition = StartPosition

NextLook == LookEvent

SpecLook == InitLook /\ [][NextLook]_vars

(***************************************************************************)
(* Key events around the stands with the look turned.  A move with the     *)
(* look turned takes the camera off the points the keys reach at yaw 0,    *)
(* and moves of at most 0.12 in x and in z are never put back on a face,   *)
(* so the camera comes to rest beside, on and inside the stands; the       *)
(* positions below are such rests, chosen so that one step of 0.25, 0.177  *)
(* or 0.125 ends midway between two faces, on a face or just within it.    *)
(***************************************************************************)
StandXs == {7500, 9750, 9823, 10000, 10177, 10250, 12500}
StandZs == {7323, 7500, 9823, 10000, 12677}
Signs == {-1, 1}
StandYaws == {0, 450, 900, 1350, 1800, 2250, 2700, 3150}

\* a mouse baseline at (0, 0) and a turn to yw have been handled
InitStand ==
    /\ \E x \in StandXs, z \in StandZs, sx \in Signs, sz \in Signs :
           cameraPosition = [x |-> sx * x, y |-> EyeHeight, z |-> sz * z]
    /\ yaw \in StandYaws
    /\ pitch = 0
    /\ cameraFront = Direction(yaw, pitch)
    /\ lastX = yaw
    /\ lastY = 0
    /\ firstMouse = FALSE
    /\ visibleCursor = FALSE
    /\ cursorMode = "DISABLED"
    /\ previousX = cameraPosition.x
    /\ previousZ = cameraPosition.z
    /\ event = NoEvent
    /\ nEvents = 0
    /\ before = NoBefore
    /\ pc = "poll"
    /\ shouldClose = FALSE
    /\ view = LookAt(cameraPosition, cameraFront, cameraUp)

\* a press of a movement key
StandEvent ==
    /\ Polling
    /\ nEvents < MaxSteps
    /\ nEvents' = nEvents + 1
    /\ \E key \in MoveKeys : KeyCallback(key, "PRESS")
    /\ UNCHANGED before

NextStand == StandEvent

SpecStand == InitStand /\ [][NextStand]_vars

(***************************************************************************)
(* Properties.                                                             *)
(***************************************************************************)
KeyStep == event'.kind = "key" /\ nEvents' # nEvents
MouseStep == event'.kind = "mouse" /\ nEvents' # nEvents

\* C1: after every key event of any sequence of movement-key and mouse
\* events the camera's x and z are both within [-23, 23] (and so they are
\* in the initial state and after mouse events, which do not move it).
C1_CameraInRoom ==
    /\ Abs(cameraPosition.x) <= RoomBound
    /\ Abs(cameraPosition.z) <= RoomBound

\* a key event whose displacement left the room, with the look turned by the
\* mouse before it, ended on the wall
C1_Witness ==
    /\ event.kind = "key"
    /\ yaw # 0
    /\ Abs(event.raw.x) > RoomBound \/ Abs(event.raw.z) > RoomBound
    /\ Abs(cameraPosition.x) = RoomBound \/ Abs(cameraPosition.z) = RoomBound

\* C2: in every reachable state the camera's y is exactly the eye height -15.
C2_EyeHeight == cameraPosition.y = EyeHeight

\* a forward or backward event at non-zero pitch displaced y, and y is back
C2_Witness ==
    /\ event.kind = "key"
    /\ event.key \in UpKeys \cup DownKeys
    /\ pitch # 0
    /\ event.raw.y # EyeHeight
    /\ cameraPosition.y = EyeHeight

\* C3: after any sequence of mouse and key events the stored pitch is within
\* [-89, 89].
C3_PitchInRange == pitch >= -PitchLimit /\ pitch <= PitchLimit

\* a mouse event whose vertical offset alone exceeds the limit downwards
C3_Witness ==
    /\ event.kind = "mouse"
    /\ event.yoffset < -PitchLimit
    /\ pitch = -PitchLimit

\* C4: the first mouse event after startup, whatever its position, leaves
\* yaw, pitch and the front vector unchanged; it records the position as the
\* baseline and clears the first-mouse flag.
C4_FirstMouseBaseline ==
    [][(MouseStep /\ firstMouse) =>
          /\ yaw' = yaw
          /\ pitch' = pitch
          /\ cameraFront' = cameraFront
          /\ lastX' = event'.xpos
          /\ lastY' = event'.ypos
          /\ firstMouse' = FALSE]_vars

\* the first mouse event arrived away from the stored (0, 0), after a key
C4_Witness ==
    /\ event.kind = "mouse"
    /\ event.first
    /\ event.xpos = 900 /\ event.ypos = 1500
    /\ nEvents = 2
    /\ yaw = 0 /\ pitch = 0
    /\ lastX = 900 /\ lastY = 1500

\* the faces of the four stands, as <<xA, xB, zA, zB>>
Boxes == { <<-StandNear, -StandFar, StandNear, StandFar>>,
           <<StandNear, StandFar, StandNear, StandFar>>,
           <<-StandNear, -StandFar, -StandNear, -StandFar>>,
           <<StandNear, StandFar, -StandNear, -StandFar>> }

Within(p, b) == InBox(p, b[1], b[2], b[3], b[4])

\* the face of a and b that c is nearer to (a when c is midway)
NearerFace(c, a, b) == IF Abs(c - a) <= Abs(c - b) THEN a ELSE b

Midway(c, a, b) == Abs(c - a) = Abs(c - b)

\* C5 (as stated): when the camera, after the movement step and the room
\* clamp, lies within stand 1's box and the x-displacement of the key event
\* exceeds 0.12, the event ends with x on the nearer of the two x-faces
\* (-7.5 or -12.5; either when x is midway) and z left as moved.
C5_SnapsToNearerXFace ==
    (/\ event.kind = "key"
     /\ InBox(event.mid, -StandNear, -StandFar, StandNear, StandFar)
     /\ event.xDiff > SnapThreshold)
    => /\ cameraPosition.x \in {-StandNear, -StandFar}
       /\ \A f \in {-StandNear, -StandFar} :
              Abs(cameraPosition.x - event.mid.x) <= Abs(f - event.mid.x)
       /\ cameraPosition.z = event.mid.z

\* C6: at (-23, -15, 0) with the front vector (1, 0, 0) a backward key event
\* leaves x exactly at -23 and z at 0, and the front vector as it was, so
\* that any number of consecutive backward events does.
C6_BackwardAtWall ==
    [][(/\ KeyStep
        /\ event'.key \in DownKeys
        /\ cameraPosition = StartPosition
        /\ cameraFront = [x |-> One, y |-> 0, z |-> 0])
       => /\ cameraPosition' = StartPosition
          /\ cameraFront' = cameraFront]_vars

\* three backward events in a row from the initial state, each stepping to
\* x = -23.25 before the clamp
C6_Witness ==
    /\ nEvents = 3
    /\ event.kind = "key"
    /\ event.key \in DownKeys
    /\ event.raw.x = -RoomBound - cameraSpeed
    /\ event.raw.z = 0
    /\ firstMouse
    /\ cameraPosition = StartPosition

\* C7: in every reachable state the front vector is
\* normalize(cos(yaw)cos(pitch), sin(pitch), sin(yaw)cos(pitch)) of the stored
\* yaw and pitch, and key events change none of front, yaw and pitch.
C7_FrontFromAngles ==
    /\ [](cameraFront =
            Normalize([x |-> RDiv(Cos(yaw) * Cos(pitch), One),
                       y |-> Sin(pitch),
                       z |-> RDiv(Sin(yaw) * Cos(pitch), One)]))
    /\ [][KeyStep => UNCHANGED <<cameraFront, yaw, pitch>>]_vars

\* a movement key handled after the mouse turned and tilted the look
C7_Witness ==
    /\ event.kind = "key"
    /\ event.key \in MoveKeys
    /\ yaw = 450
    /\ pitch = 600
    /\ cameraFront.y = Sin(600)

\* C8: within one key event collision resolution corrects at most one of x
\* and z, also when both deltas exceed 0.12 inside a stand's box.
C8_OneAxisCorrected ==
    event.kind = "key" =>
        \/ cameraPosition.x = event.mid.x
        \/ cameraPosition.z = event.mid.z

\* both deltas above 0.12 inside a box, and only x was moved to a face
C8_Witness ==
    /\ event.kind = "key"
    /\ \E b \in Boxes : Within(event.mid, b)
    /\ event.xDiff > SnapThreshold
    /\ event.zDiff > SnapThreshold
    /\ cameraPosition.x # event.mid.x
    /\ cameraPosition.z = event.mid.z

\* C9: inside a stand's box the x-faces come before the z-faces: when the
\* x-delta exceeds 0.12 and x is not midway between the x-faces, x is put on
\* its nearer face and z is left as moved whatever the z-delta; otherwise,
\* when the z-delta exceeds 0.12 and z is not midway, z is put on its nearer
\* face and x is left; otherwise nothing is corrected.
C9_AxisPriority ==
    \A b \in Boxes :
        (event.kind = "key" /\ Within(event.mid, b)) =>
            IF event.xDiff > SnapThreshold /\ ~Midway(event.mid.x, b[1], b[2])
            THEN /\ cameraPosition.x = NearerFace(event.mid.x, b[1], b[2])
                 /\ cameraPosition.z = event.mid.z
            ELSE IF event.zDiff > SnapThreshold /\ ~Midway(event.mid.z, b[3], b[4])
            THEN /\ cameraPosition.x = event.mid.x
                 /\ cameraPosition.z = NearerFace(event.mid.z, b[3], b[4])
            ELSE /\ cameraPosition.x = event.mid.x
                 /\ cameraPosition.z = event.mid.z

\* both deltas above 0.12 with z nearer to a z-face than x to an x-face, and
\* yet x is the coordinate corrected
C9_Witness ==
    \E b \in Boxes :
        /\ event.kind = "key"
        /\ Within(event.mid, b)
        /\ event.xDiff > SnapThreshold
        /\ event.zDiff > SnapThreshold
        /\ Abs(event.mid.z - NearerFace(event.mid.z, b[3], b[4]))
             < Abs(event.mid.x - NearerFace(event.mid.x, b[1], b[2]))
        /\ cameraPosition.x = NearerFace(event.mid.x, b[1], b[2])
        /\ cameraPosition.x # event.mid.x
        /\ cameraPosition.z = event.mid.z

\* C10: an Escape press flips the cursor-visibility flag and leaves the
\* camera position, the previous position, yaw, pitch and the front vector
\* unchanged, in every reachable state.
C10_EscapeOnlyFlips ==
    [][(KeyStep /\ event'.key = "ESCAPE" /\ event'.action = "PRESS")
       => /\ visibleCursor' = ~visibleCursor
          /\ UNCHANGED <<cameraPosition, previousX, previousZ,
                         yaw, pitch, cameraFront>>]_vars

\* Escape pressed with the cursor shown and the camera within a stand's box,
\* hiding the cursor again
C10_Witness ==
    /\ event.kind = "key"
    /\ event.key = "ESCAPE"
    /\ event.action = "PRESS"
    /\ ~visibleCursor
    /\ cursorMode = "DISABLED"
    /\ nEvents >= 2
    /\ \E b \in Boxes : Within(cameraPosition, b)

\* C11: the run loop ends only when the windowing layer has reported that a
\* close was requested; no key event (Escape included) and no mouse event
\* handled by the callbacks stops the loop or requests the close; and once the
\* close is reported the loop exits before drawing another frame.
C11_LoopEndsOnCloseOnly ==
    /\ [][(pc # "done" /\ pc' = "done") => shouldClose]_vars
    /\ [][(KeyStep \/ MouseStep) => UNCHANGED <<pc, shouldClose>>]_vars
    /\ [][(pc = "draw" /\ pc' # pc) => ~shouldClose]_vars
    /\ [][shouldClose => pc' \in {"poll", "test", "done"}]_vars

\* the loop has ended on a close request, after an Escape press and after a
\* frame drawn with the camera moved away from its first position
C11_Witness ==
    /\ pc = "done"
    /\ shouldClose
    /\ visibleCursor
    /\ view # NoView
    /\ view.eye # StartPosition

\* C12 (as stated): in each iteration the pending events are processed first
\* and the camera is read afterwards for the view of that iteration, so at the
\* end of an iteration its view shows the camera as the events left it.
C12_ViewAfterEvents ==
    (pc = "test" /\ view # NoView) =>
        view = LookAt(cameraPosition, cameraFront, cameraUp)

\* C12 (amended): in each iteration the view is built first, from the camera
\* as it is when the frame is drawn, and the pending events are processed
\* after that, at the end of the iteration; they leave the view of their own
\* iteration as it was and are shown by the view of the next one.
C12_ViewBeforeEvents ==
    /\ [][(pc = "draw" /\ pc' # pc) =>
             /\ pc' = "poll"
             /\ view'.eye = cameraPosition
             /\ view'.center = Plus(cameraPosition, Scale(Unit, cameraFront))
             /\ UNCHANGED Camera]_vars
    /\ [][(KeyStep \/ MouseStep) =>
             /\ pc = "poll" /\ pc' = "poll"
             /\ view # NoView
             /\ view' = view]_vars
    /\ [][(pc = "poll" /\ pc' # pc) => (pc' = "test" /\ UNCHANGED Camera)]_vars
    /\ [][(pc = "test" /\ pc' # pc) => UNCHANGED Camera]_vars

\* an iteration ends with a view that does not show the move made in it
C12_Witness ==
    /\ pc = "test"
    /\ view # NoView
    /\ event.kind = "key"
    /\ event.key \in UpKeys
    /\ view.eye # cameraPosition
    /\ view.eye = StartPosition

\* C13: two mouse events after the baseline whose x-offsets sum to 1800
\* pixels (180 degrees of yaw) and whose y-offsets are 0 negate the x and z
\* entries of the front vector and leave its y entry as it was, for every
\* yaw and pitch they start from.
C13_HalfTurn ==
    (/\ event.kind = "mouse" /\ ~event.first
     /\ before.event.kind = "mouse" /\ ~before.event.first
     /\ before.event.xoffset + event.xoffset = 1800
     /\ before.event.yoffset = 0 /\ event.yoffset = 0)
    => cameraFront = [x |-> -before.front0.x,
                      y |-> before.front0.y,
                      z |-> -before.front0.z]

\* a half turn in two unequal parts, started looking up and to the side
C13_Witness ==
    /\ event.kind = "mouse" /\ ~event.first
    /\ before.event.kind = "mouse" /\ ~before.event.first
    /\ before.event.xoffset = 450 /\ event.xoffset = 1350
    /\ before.event.yoffset = 0 /\ event.yoffset = 0
    /\ before.front0.x # 0 /\ before.front0.y # 0 /\ before.front0.z # 0
    /\ cameraFront.x = -before.front0.x
    /\ cameraFront.y = before.front0.y

\* ---------------------------------------------------------------------
\* strictly inside the box b: off every face of it
Inside(p, b) ==
    /\ Abs(b[1]) < Abs(p.x) /\ Abs(p.x) < Abs(b[2]) /\ p.x * b[1] > 0
    /\ Abs(b[3]) < Abs(p.z) /\ Abs(p.z) < Abs(b[4]) /\ p.z * b[3] > 0

\* the key event put a coordinate of its moved position on a face of b
Corrects(b) ==
    \/ event.xDiff > SnapThreshold /\ ~Midway(event.mid.x, b[1], b[2])
    \/ event.zDiff > SnapThreshold /\ ~Midway(event.mid.z, b[3], b[4])

\* C14 as written: after every key event the camera is not strictly inside
\* any of the four stand boxes.
C14_NeverInsideStand ==
    event.kind = "key" => \A b \in Boxes : ~Inside(cameraPosition, b)

\* C14: a key event whose moved position lies within a stand's box leaves the
\* camera outside every stand when its x-delta exceeds 0.12 with x not
\* midway between the x-faces, or its z-delta exceeds 0.12 with z not midway
\* between the z-faces; a move with both deltas at most 0.12 is not kept
\* out: the camera stays at the moved position.
C14_KeptOutWhenCorrected ==
    event.kind = "key" =>
        \A b \in Boxes :
            Within(event.mid, b) =>
                /\ Corrects(b) => \A c \in Boxes : ~Inside(cameraPosition, c)
                /\ (event.xDiff <= SnapThreshold /\ event.zDiff <= SnapThreshold)
                       => cameraPosition = event.mid

\* a strafe along the x-axis went into a stand by its z-face and was put
\* back on that face
C14_Witness ==
    /\ event.kind = "key" /\ event.key \in RightKeys
    /\ \E b \in Boxes : Inside(event.mid, b) /\ Corrects(b)
    /\ event.xDiff = 0 /\ event.zDiff > SnapThreshold
    /\ cameraPosition.z = StandNear /\ cameraPosition.x = event.mid.x

\* C15: when the moved position of a key event lies within a stand's box and
\* neither delta exceeds 0.12, the stands change nothing: the event ends at
\* the moved position.
C15_SmallMoveUntouched ==
    (/\ event.kind = "key"
     /\ \E b \in Boxes : Within(event.mid, b)
     /\ event.xDiff <= SnapThreshold /\ event.zDiff <= SnapThreshold)
        => /\ cameraPosition.x = event.mid.x
           /\ cameraPosition.z = event.mid.z

\* a forward move at a steep pitch went from a face into the stand and
\* stayed there
C15_Witness ==
    /\ event.kind = "key" /\ event.key \in UpKeys
    /\ event.xDiff > 0 /\ event.xDiff <= SnapThreshold
    /\ event.zDiff <= SnapThreshold
    /\ \E b \in Boxes : Inside(event.mid, b) /\ Inside(cameraPosition, b)
    /\ cameraPosition = event.mid

\* ---------------------------------------------------------------------
\* the length of the displacement of a key: 0.25 forward and backward, half
\* of it sideways, nothing for the other keys
StepOf(key) ==
    IF key \in UpKeys \cup DownKeys THEN cameraSpeed
    ELSE IF key \in LeftKeys \cup RightKeys THEN cameraSpeed \div 2
    ELSE 0

\* C16: a single key event changes each of x and z by at most the movement
\* step of its key; so a camera on a stand face moving parallel to the face
\* is not carried along to a z-face.
C16_AtMostOneStep ==
    event.kind = "key" =>
        /\ Abs(cameraPosition.x - event.from.x) <= StepOf(event.key)
        /\ Abs(cameraPosition.z - event.from.z) <= StepOf(event.key)

\* ---------------------------------------------------------------------
\* C17: the stored previous position always equals the camera's x and z, a
\* mouse event changes neither, and so the deltas of a key event are the
\* displacement of that event alone after the room clamp, which is nothing
\* for a key that does not move.
C17_PreviousIsPosition ==
    /\ [](/\ previousX = cameraPosition.x
          /\ previousZ = cameraPosition.z
          /\ event.kind = "key" =>
                /\ event.xDiff = Abs(event.mid.x - event.from.x)
                /\ event.zDiff = Abs(event.mid.z - event.from.z)
                /\ event.key \notin MoveKeys =>
                       event.xDiff = 0 /\ event.zDiff = 0)
    /\ [][MouseStep => UNCHANGED <<cameraPosition, previousX, previousZ>>]_vars

\* a move to a stand face, a mouse event, then a key that does not move
C17_Witness ==
    /\ event.kind = "key" /\ event.key = "SPACE"
    /\ event.xDiff = 0 /\ event.zDiff = 0
    /\ ~firstMouse
    /\ previousX = cameraPosition.x /\ previousX = StandNear

\* ---------------------------------------------------------------------
\* C18: a key event of a movement key displaces the camera by the step of
\* the key whatever its action is, press, repeat or release; so a press and
\* the release after it, neither clamped nor put on a face, displace the
\* camera by two steps.
C18_EveryActionMoves ==
    /\ []((event.kind = "key" /\ event.key \in MoveKeys) =>
            /\ event.raw = Move(event.key, event.from, cameraFront)
            /\ event.raw # event.from)
    /\ [][(/\ KeyStep
           /\ event.kind = "key" /\ event.action = "PRESS"
           /\ event.key \in UpKeys
           /\ event'.key = event.key /\ event'.action = "RELEASE"
           /\ cameraPosition = event.raw)
             => /\ event'.from = event.raw
                /\ Minus(event'.raw, event'.from) = Minus(event.raw, event.from)
                /\ event'.raw # event.from]_vars

\* a press and a release of the forward key took the camera two steps from
\* where the run begins
C18_Witness ==
    /\ event.kind = "key" /\ event.action = "RELEASE" /\ event.key \in UpKeys
    /\ nEvents = 2
    /\ event.from.x = StartPosition.x + cameraSpeed
    /\ cameraPosition.x = StartPosition.x + 2 * cameraSpeed

\* ---------------------------------------------------------------------
EscapePress(e) == e.kind = "key" /\ e.key = "ESCAPE" /\ e.action = "PRESS"

\* C19: the cursor-visibility flag always agrees with the cursor mode last
\* set on the window (false with the disabled mode, true with the normal
\* mode), beginning false and disabled; only an Escape press changes either,
\* and two Escape presses restore both.
C19_FlagAgreesWithMode ==
    /\ [](/\ cursorMode \in {"NORMAL", "DISABLED"}
          /\ visibleCursor <=> cursorMode = "NORMAL"
          /\ nEvents = 0 => ~visibleCursor)
    /\ [][(visibleCursor' # visibleCursor \/ cursorMode' # cursorMode)
             => KeyStep /\ EscapePress(event')]_vars
    /\ [][(KeyStep /\ nEvents = 1 /\ EscapePress(event) /\ EscapePress(event'))
             => ~visibleCursor' /\ cursorMode' = "DISABLED"]_vars

\* two Escape presses from where the run begins
C19_Witness ==
    /\ EscapePress(event)
    /\ nEvents = 2
    /\ cameraPosition = StartPosition
    /\ firstMouse
    /\ ~visibleCursor /\ cursorMode = "DISABLED"

\* ---------------------------------------------------------------------
\* what a key event makes of the camera, from the state before it and the
\* key alone
KeyOutcome(key) ==
    LET mid == Clamp(Move(key, cameraPosition, cameraFront))
    IN  Collide(mid, Abs(mid.x - previousX), Abs(mid.z - previousZ))

\* the angles a mouse event leaves, from the state before it and the
\* position alone
YawOutcome(xpos) == TurnYaw(yaw, xpos - Baseline(firstMouse, lastX, xpos))
PitchOutcome(ypos) == ClampPitch(pitch + (Baseline(firstMouse, lastY, ypos) - ypos))

\* C20: the cursor-visibility flag gates no camera operation: the position,
\* yaw, pitch and front a key or mouse event leaves are determined by the
\* camera state before the event and the event, whatever the flag is.
C20_FlagGatesNothing ==
    /\ [][KeyStep =>
            /\ cameraPosition' = KeyOutcome(event'.key)
            /\ UNCHANGED <<yaw, pitch, cameraFront>>]_vars
    /\ [][MouseStep =>
            /\ yaw' = YawOutcome(event'.xpos)
            /\ pitch' = PitchOutcome(event'.ypos)
            /\ cameraFront' = Direction(yaw', pitch')
            /\ UNCHANGED cameraPosition]_vars

\* with the cursor shown, a mouse event turned the camera
C20_Witness ==
    /\ visibleCursor
    /\ event.kind = "mouse" /\ ~event.first
    /\ event.xoffset # 0 /\ event.yoffset # 0
    /\ yaw = event.xoffset /\ pitch = event.yoffset
    /\ cameraFront.z # 0

\* ---------------------------------------------------------------------
\* C21 as written: a mouse event after the baseline adds the change in mouse
\* x to yaw and the change in mouse y to pitch before the clamp, each times
\* 0.1, the change being the new sample less the one before it.
C21_AddsChangeInY ==
    [][(MouseStep /\ ~firstMouse)
         => /\ yaw' = yaw + (lastX' - lastX)
            /\ pitch' = ClampPitch(pitch + (lastY' - lastY))]_vars

\* C21: a mouse event after the baseline adds 0.1 times the change in mouse
\* x to yaw and 0.1 times the fall in mouse y (the sample before less the
\* new one) to pitch before the clamp; yaw is neither clamped nor wrapped,
\* so after any mouse events it is 0.1 times the last mouse x less the first.
C21_YawFollowsMouseX ==
    /\ [][(MouseStep /\ ~firstMouse)
            => /\ yaw' = yaw + (lastX' - lastX)
               /\ pitch' = ClampPitch(pitch + (lastY - lastY'))]_vars
    /\ [](~firstMouse => yaw = lastX - before.firstX)

\* the mouse went right and came back part of the way, and went up
C21_Witness ==
    /\ nEvents = MaxLooks
    /\ before.firstX = 450 /\ before.event.xpos = 1800 /\ lastX = 900
    /\ yaw = 450
    /\ event.yoffset > 0 /\ pitch > 0

\* ---------------------------------------------------------------------
\* the mouse event handled last drove the pitch to its upper (lower) limit
AtUpperLimit == pitch = PitchLimit \/ event.yoffset >= 2 * PitchLimit
AtLowerLimit == pitch = -PitchLimit \/ event.yoffset <= -2 * PitchLimit

\* C22 as written: with the pitch driven to 89 (-89), a mouse event d pixels
\* the other way leaves the pitch at exactly 89 - 0.1 d (-89 + 0.1 d).
C22_ExactlyLimitLessD ==
    [][(MouseStep /\ event.kind = "mouse" /\ ~event.first)
         => /\ (AtUpperLimit /\ lastY' >= lastY)
                  => pitch' = PitchLimit - (lastY' - lastY)
            /\ (AtLowerLimit /\ lastY' <= lastY)
                  => pitch' = -PitchLimit + (lastY - lastY')]_vars

\* C22: the clamp is applied to the stored pitch: with the pitch driven to
\* 89 (-89), however far past it, a mouse event d pixels the other way
\* leaves the pitch at 89 - 0.1 d (-89 + 0.1 d) for d up to 1780, and at the
\* opposite limit for a larger d.
C22_NoWindUp ==
    [][(MouseStep /\ event.kind = "mouse" /\ ~event.first)
         => /\ (AtUpperLimit /\ lastY' >= lastY)
                  => pitch' = IF lastY' - lastY <= 2 * PitchLimit
                              THEN PitchLimit - (lastY' - lastY)
                              ELSE -PitchLimit
            /\ (AtLowerLimit /\ lastY' <= lastY)
                  => pitch' = IF lastY - lastY' <= 2 * PitchLimit
                              THEN -PitchLimit + (lastY - lastY')
                              ELSE PitchLimit]_vars

\* the mouse went up 240 degrees' worth from level, then down 60
C22_Witness ==
    /\ event.kind = "mouse" /\ event.yoffset = -600
    /\ before.event.kind = "mouse" /\ before.event.yoffset = 2400
    /\ before.front.y = Direction(0, PitchLimit).y
    /\ pitch = PitchLimit - 600

\* ---------------------------------------------------------------------
\* a coordinate past a wall put on that wall
OnWall(c) == IF c > RoomBound THEN RoomBound
             ELSE IF c < -RoomBound THEN -RoomBound
             ELSE c

\* C23: a coordinate that is past the room bound after the move of a key
\* event is assigned the bound with its sign, 23 or -23, and each of x and z
\* on its own: a clamp of x leaves z as moved and a clamp of z leaves x as
\* moved, so a camera pressed on a wall still slides along it.
C23_ClampPerAxis ==
    event.kind = "key" =>
        /\ event.mid.x = OnWall(event.raw.x)
        /\ event.mid.z = OnWall(event.raw.z)
        /\ (Abs(event.raw.x) > RoomBound /\ Abs(event.raw.z) <= RoomBound)
              => /\ Abs(cameraPosition.x) = RoomBound
                 /\ cameraPosition.x * event.raw.x > 0
                 /\ cameraPosition.z = event.raw.z
        /\ (Abs(event.raw.z) > RoomBound /\ Abs(event.raw.x) <= RoomBound)
              => /\ Abs(cameraPosition.z) = RoomBound
                 /\ cameraPosition.z * event.raw.z > 0
                 /\ cameraPosition.x = event.raw.x

\* backing into the wall x = -23 on a slant: x is put on the wall and z
\* moves along it
C23_Witness ==
    /\ event.kind = "key" /\ event.key \in DownKeys
    /\ event.from.x = -RoomBound
    /\ event.raw.x < -RoomBound
    /\ event.raw.z # event.from.z
    /\ cameraPosition.x = -RoomBound
    /\ cameraPosition.z = event.raw.z

\* ---------------------------------------------------------------------
\* the sideways direction of the camera
Sideways == Normalize(Cross(cameraFront, cameraUp))

\* C24: the forward and backward keys displace the position by plus and
\* minus 0.25 times the front vector, the strafe keys by plus and minus
\* 0.125 times the normalised cross product of front and up, which is
\* level; the arrow and the letter of a pair do the same, and a key event
\* applies one displacement at most.
C24_Displacements ==
    event.kind = "key" =>
        /\ event.key \in {"UP", "W"}
              => event.raw = Plus(event.from, Scale(cameraSpeed, cameraFront))
        /\ event.key \in {"DOWN", "S"}
              => event.raw = Minus(event.from, Scale(cameraSpeed, cameraFront))
        /\ event.key \in {"RIGHT", "D"}
              => event.raw = Plus(event.from, Scale(cameraSpeed \div 2, Sideways))
        /\ event.key \in {"LEFT", "A"}
              => event.raw = Minus(event.from, Scale(cameraSpeed \div 2, Sideways))
        /\ event.key \in {"RIGHT", "D", "LEFT", "A"}
              => Sideways.y = 0 /\ event.raw.y = event.from.y
        /\ event.key \notin {"UP", "W", "DOWN", "S", "RIGHT", "D", "LEFT", "A"}
              => event.raw = event.from

\* a strafe by the letter key with the look turned and raised
C24_Witness ==
    /\ event.kind = "key" /\ event.key = "A"
    /\ pitch # 0 /\ cameraFront.x # 0 /\ cameraFront.z # 0
    /\ event.raw.x # event.from.x /\ event.raw.z # event.from.z
    /\ event.raw.y = event.from.y

\* ---------------------------------------------------------------------
\* the key event e was neither clamped at a wall nor put on a stand face;
\* fin is the position it left
Untouched(e, fin) == fin.x = e.raw.x /\ fin.z = e.raw.z

\* C25: a forward event and then a backward event, or a strafe to the left
\* and then one to the right, with no mouse event between them, return the
\* camera to the x and z it had, when neither event is clamped at a wall or
\* put on a stand face.
C25_ThereAndBack ==
    [][(/\ KeyStep
        /\ event.kind = "key"
        /\ \/ event.key \in UpKeys /\ event'.key \in DownKeys
           \/ event.key \in LeftKeys /\ event'.key \in RightKeys
        /\ Untouched(event, cameraPosition)
        /\ Untouched(event', cameraPosition'))
       => /\ cameraPosition'.x = event.from.x
          /\ cameraPosition'.z = event.from.z]_vars

\* forward and back between two stands, after the first mouse event
C25_Witness ==
    /\ nEvents = MaxEvents
    /\ ~firstMouse
    /\ event.kind = "key" /\ event.key \in DownKeys
    /\ event.from.x = -StandFar + cameraSpeed
    /\ Untouched(event, cameraPosition)
    /\ cameraPosition.x = -StandFar /\ cameraPosition.z = 7375

\* ---------------------------------------------------------------------
\* the image of p in the plane x = 0, and in the plane z = 0
MirrorX(p) == [p EXCEPT !.x = -p.x]
MirrorZ(p) == [p EXCEPT !.z = -p.z]

\* the room clamp and the four stand blocks (lines 1541-1595) on a moved
\* position raw, with (px, pz) the previous position
Resolve(raw, px, pz) ==
    LET mid == Clamp(raw)
    IN  Collide(mid, Abs(mid.x - px), Abs(mid.z - pz))

\* C26: the room clamp and the stand blocks are mirror images under x -> -x
\* and under z -> -z: for every key event, from the mirror images of its
\* moved position and previous position they give the mirror image of the
\* position the event left.
C26_MirrorImages ==
    event.kind = "key" =>
        /\ Resolve(event.raw, event.from.x, event.from.z) = cameraPosition
        /\ Resolve(MirrorX(event.raw), -event.from.x, event.from.z)
              = MirrorX(cameraPosition)
        /\ Resolve(MirrorZ(event.raw), event.from.x, -event.from.z)
              = MirrorZ(cameraPosition)

\* a slanted move into the third stand, put on its x-face
C26_Witness ==
    /\ event.kind = "key"
    /\ event.xDiff > SnapThreshold /\ event.zDiff > SnapThreshold
    /\ Inside(event.mid, <<-StandNear, -StandFar, -StandNear, -StandFar>>)
    /\ cameraPosition.x = -StandNear
    /\ cameraPosition.z = event.mid.z
    /\ Resolve(MirrorZ(event.raw), event.from.x, -event.from.z).z = -event.mid.z

\* ---------------------------------------------------------------------
\* C27: a mouse event changes only the look state (yaw, pitch, front, last
\* mouse position, first-mouse flag) and never the position or the previous
\* position; a key event changes only the position, the previous position
\* and the cursor flag and never yaw, pitch, front or the mouse baseline; a
\* key that is neither a movement key nor Escape changes nothing.
C27_Frames ==
    /\ [][MouseStep => UNCHANGED <<cameraPosition, previousX, previousZ,
                                   visibleCursor, cursorMode>>]_vars
    /\ [][KeyStep => UNCHANGED <<yaw, pitch, cameraFront,
                                 lastX, lastY, firstMouse>>]_vars
    /\ [][(KeyStep /\ event'.key \notin MoveKeys \cup {"ESCAPE"})
            => UNCHANGED <<cameraPosition, previousX, previousZ,
                           visibleCursor, cursorMode, yaw, pitch, cameraFront,
                           lastX, lastY, firstMouse>>]_vars

\* a key that does nothing, handled with the camera on a stand face after a
\* mouse event
C27_Witness ==
    /\ event.kind = "key" /\ event.key = "SPACE"
    /\ nEvents = MaxEvents
    /\ ~firstMouse /\ lastX # 0
    /\ cameraPosition.z = StandNear
    /\ \E b \in Boxes : Within(cameraPosition, b)
    /\ event.from = cameraPosition

\* ---------------------------------------------------------------------
\* C28: when the moved position of a key event lies within a stand's box
\* with the x-delta above 0.12 and x midway between the two x-faces
\* (|x| = 10), no x-branch is taken: x stays, and the chain goes on to the
\* z-faces, which put z on the nearer z-face only if the z-delta is above
\* 0.12 too and z is not midway itself.
C28_MidwayFallsThrough ==
    event.kind = "key" =>
        \A b \in Boxes :
            (/\ Within(event.mid, b)
             /\ event.xDiff > SnapThreshold
             /\ Midway(event.mid.x, b[1], b[2]))
            => /\ Abs(event.mid.x) = (StandNear + StandFar) \div 2
               /\ cameraPosition.x = event.mid.x
               /\ cameraPosition.z =
                     IF event.zDiff > SnapThreshold
                        /\ ~Midway(event.mid.z, b[3], b[4])
                     THEN NearerFace(event.mid.z, b[3], b[4])
                     ELSE event.mid.z

\* a slanted step ended midway in x and within the stand in z: x stayed
\* and z was put back on the face
C28_Witness ==
    /\ event.kind = "key"
    /\ event.xDiff > SnapThreshold /\ event.zDiff > SnapThreshold
    /\ \E b \in Boxes : Inside(event.mid, b) /\ Midway(event.mid.x, b[1], b[2])
    /\ cameraPosition.x = event.mid.x
    /\ cameraPosition.z # event.mid.z
    /\ Abs(cameraPosition.z) = StandNear

\* a slanted step ended midway in x and midway in z: nothing was corrected
C28_BothMidway ==
    /\ event.kind = "key"
    /\ event.xDiff > SnapThreshold /\ event.zDiff > SnapThreshold
    /\ \E b \in Boxes : /\ Midway(event.mid.x, b[1], b[2])
                        /\ Midway(event.mid.z, b[3], b[4])
                        /\ Within(event.mid, b)
    /\ cameraPosition = event.mid

\* ---------------------------------------------------------------------
\* the positions before and after each of the four blocks of a key event
Chain(p, xDiff, zDiff) ==
    LET p1 == Stand1(p, xDiff, zDiff)
        p2 == Stand2(p1, xDiff, zDiff)
        p3 == Stand3(p2, xDiff, zDiff)
        p4 == Stand4(p3, xDiff, zDiff)
    IN  <<p, p1, p2, p3, p4>>

\* how many of the four blocks changed the position
Changes(c) == Cardinality({i \in 1..4 : c[i + 1] # c[i]})

\* C29: the box test of a stand includes its faces and a snap puts the
\* camera on a face, so after a snap the camera is still within that
\* stand's box; at most one of the four blocks changes the position in a key
\* event, and a snap never puts the camera within another stand's box or
\* outside the room.
C29_SnapStaysInBox ==
    event.kind = "key" =>
        /\ Changes(Chain(event.mid, event.xDiff, event.zDiff)) <= 1
        /\ cameraPosition # event.mid =>
              /\ \E b \in Boxes :
                    /\ Within(event.mid, b)
                    /\ Within(cameraPosition, b)
                    /\ \/ cameraPosition.x \in {b[1], b[2]}
                       \/ cameraPosition.z \in {b[3], b[4]}
                    /\ \A c \in Boxes \ {b} : ~Within(cameraPosition, c)
              /\ Abs(cameraPosition.x) <= RoomBound
              /\ Abs(cameraPosition.z) <= RoomBound

\* a step past the middle of a stand was put on the far x-face, where the
\* camera still tests as within the stand
C29_Witness ==
    /\ event.kind = "key"
    /\ cameraPosition.x # event.mid.x
    /\ Abs(cameraPosition.x) = StandFar
    /\ Abs(event.from.x) < Abs(event.mid.x)
    /\ Changes(Chain(event.mid, event.xDiff, event.zDiff)) = 1
    /\ \E b \in Boxes : Inside(event.mid, b) /\ Within(cameraPosition, b)

====
